---- MODULE Spec2Model ----
(***************************************************************************)
(* A model of src/server/conn_context.cc: the per-connection subscription  *)
(* state machine (ChangeSubscriptions and its wrappers, Unsubscribe), the  *)
(* monitor broadcast (ChangeMonitor), the two constructors, the client     *)
(* tracking predicate, the StoredCmd argument capture and UsedMemory.      *)
(***************************************************************************)
EXTENDS Integers, Sequences, FiniteSets, TLC

\* ------------------------------------------------------------------ bounds
\* Number of distinct channel / pattern names a client may use.
NumNames == 2
\* Longest argument list handed to ChangeSubscription / ChangePSubscription.
MaxArgs == 2
\* Shard threads of the pool, and connections that may ask to be monitored.
NumShards == 2
NumConns == 2
\* Contexts constructed in one run (a root and its squashed children), the command
\* families of the ACL bitmap, and the later writes to ACL bitmaps.
MaxCtx == 3
NumFamilies == 2
MaxAclWrites == 1
\* Width in bits of the two tracking sequence counters (size_t in the program).
SeqBits == 2
\* Arguments of a captured command and bytes of one argument.
MaxCmdArgs == 2
MaxArgLen == 2
\* Bytes a pre-supplied buffer may hold before and after the arguments' bytes.
MaxPad == 1
\* sizeof(C) of a container object, and the largest capacity of its allocation.
SizeofC == 2
MaxCap == 2

Names == 1..NumNames
ArgLists == UNION {[1..n -> Names] : n \in 0..MaxArgs}

\* ------------------------------------------------------------------ state
VARIABLES
  subscribe_info,  \* conn_state.subscribe_info: present flag + the two sets
  subscriptions,   \* ConnectionContext::subscriptions
  store,           \* names the channel routing index holds for this context
  csu,             \* the ChannelStoreUpdater of the call in progress
  call,            \* the operation in progress / last finished, its arguments and locals
  replies,         \* frames sent to the reply builder by that operation
  entry,           \* subscribe_info, subscriptions and store when that operation began
  pc               \* position inside the operation

subVars == <<subscribe_info, subscriptions, store, csu, call, replies, entry, pc>>

VARIABLES
  conn_shard,      \* the shard thread each connection runs on
  mon_list,        \* per shard thread: the connections in ServerState::Monitors()
  mon_count,       \* per shard thread: the monitor count NotifyChangeCount maintains
  mon_call,        \* per connection: ChangeMonitor in progress (start, shards still to run)
  monitoring       \* per connection: the flag EnableMonitoring sets

monVars == <<conn_shard, mon_list, mon_count, mon_call, monitoring>>

VARIABLES
  ctx,             \* the ConnectionContext objects constructed so far
  acl_heap,        \* the storage of each context's acl_commands vector
  acl_writes       \* how many writes to ACL bitmaps happened after construction

ctxVars == <<ctx, acl_heap, acl_writes>>

VARIABLES
  tracking,        \* ConnectionState::ClientTracking: enabled, noloop, option, two counters
  should_track     \* the last ShouldTrackKeys() call: the object it saw, what it returned

trkVars == <<tracking, should_track>>

VARIABLES
  cmd_args,        \* the caller's argument list handed to the StoredCmd constructor
  stored,          \* the StoredCmd: borrowed slice, or packed buffer and sizes
  scratch,         \* the caller's CmdArgVec handed to ArgList
  arg_list,        \* the last ArgList() call: the scratch it was given, what it returned
  cmd_buffer,      \* the caller's buffer handed to the adopting StoredCmd constructor
  layout,          \* where the two containers of the owned storage keep their data
  used_memory      \* the last UsedMemory() call and what it returned

cmdVars == <<cmd_args, stored, scratch, arg_list, cmd_buffer, layout, used_memory>>

vars == <<subVars, monVars, ctxVars, trkVars, cmdVars>>
otherThanSub == <<monVars, ctxVars, trkVars, cmdVars>>
otherThanMon == <<subVars, ctxVars, trkVars, cmdVars>>
otherThanCtx == <<subVars, monVars, trkVars, cmdVars>>
otherThanTrk == <<subVars, monVars, ctxVars, cmdVars>>
otherThanCmd == <<subVars, monVars, ctxVars, trkVars>>

\* ------------------------------------------------------ subscription data
\* An absent unique_ptr<SubscribeInfo>.
NoInfo == [present |-> FALSE, channels |-> {}, patterns |-> {}]
\* new ConnectionState::SubscribeInfo: both sets empty.
NewInfo == [present |-> TRUE, channels |-> {}, patterns |-> {}]

\* SubscribeInfo::IsEmpty()
IsEmpty(s) == s.channels = {} /\ s.patterns = {}
\* SubscribeInfo::SubscriptionCount()
SubscriptionCount(s) == Cardinality(s.channels) + Cardinality(s.patterns)

\* local_store = pattern ? sinfo.patterns : sinfo.channels
LocalStore(s, pattern) == IF pattern THEN s.patterns ELSE s.channels
WithLocalStore(s, pattern, set) ==
  IF pattern THEN [s EXCEPT !.patterns = set] ELSE [s EXCEPT !.channels = set]

EmptyStore == [channels |-> {}, patterns |-> {}]
NoCsu == [open |-> FALSE, pattern |-> FALSE, to_add |-> FALSE, ops |-> <<>>, applied |-> 0]
NoCall == [op |-> "none", pattern |-> FALSE, to_add |-> FALSE, to_reply |-> FALSE,
           args |-> <<>>, i |-> 0, result |-> <<>>, early |-> FALSE]
NoEntry == [info |-> NoInfo, subs |-> 0, store |-> EmptyStore]

\* ChannelStoreUpdater csu{pattern, to_add, this, tid}
CsuOpen(pattern, to_add) ==
  [open |-> TRUE, pattern |-> pattern, to_add |-> to_add, ops |-> <<>>, applied |-> 0]
\* ChannelStoreUpdater::Record: append a pending operation, the index is not touched.
CsuRecord(u, channel) == [u EXCEPT !.ops = Append(@, channel)]
Range(s) == {s[k] : k \in 1..Len(s)}
\* ChannelStoreUpdater::Apply: one pass over the recorded names against the index.
CsuApplyStore(u, st) ==
  LET old == LocalStore(st, u.pattern)
      new == IF u.to_add THEN old \cup Range(u.ops) ELSE old \ Range(u.ops)
  IN IF u.pattern THEN [st EXCEPT !.patterns = new] ELSE [st EXCEPT !.channels = new]

\* SendSubscriptionChangedResponse: one push frame of three elements.
SendSubscriptionChangedResponse(action, has_topic, topic, count) ==
  [action |-> action, null_topic |-> ~has_topic, topic |-> IF has_topic THEN topic ELSE 0,
   count |-> count]

\* const char* action[2] of ChangeSubscription and ChangePSubscription, indexed by to_add
ActionName(pattern, to_add) ==
  IF pattern THEN (IF to_add THEN "psubscribe" ELSE "punsubscribe")
  ELSE (IF to_add THEN "subscribe" ELSE "unsubscribe")

\* ---------------------------------------------------- ChangeSubscriptions
AtBoundary == pc = "idle"

Snapshot == [info |-> subscribe_info, subs |-> subscriptions, store |-> store]

\* Mutant: the result is sized to the arguments whether or not a reply is wanted.
ZeroResult_Sized(channels, to_reply) == [k \in 1..Len(channels) |-> 0]
\* vector<unsigned> result(to_reply ? channels.size() : 0, 0)
ZeroResult(channels, to_reply) == [k \in 1..(IF to_reply THEN Len(channels) ELSE 0) |-> 0]

\* The entry of ChangeSubscriptions up to the loop: the early return, the creation
\* of the SubscribeInfo and the construction of the updater.
ChangeSubscriptions(op, channels, pattern, to_add, to_reply) ==
  LET c == [op |-> op, pattern |-> pattern, to_add |-> to_add, to_reply |-> to_reply,
            args |-> channels, i |-> 1, result |-> ZeroResult(channels, to_reply),
            early |-> FALSE]
  IN /\ entry' = Snapshot
     /\ replies' = <<>>
     /\ IF ~to_add /\ ~subscribe_info.present
        THEN /\ call' = [c EXCEPT !.early = TRUE]
             /\ csu' = NoCsu
             /\ pc' = "reply"
             /\ UNCHANGED <<subscribe_info, subscriptions, store>>
        ELSE /\ subscribe_info' = IF subscribe_info.present THEN subscribe_info ELSE NewInfo
             /\ subscriptions' = IF subscribe_info.present THEN subscriptions
                                 ELSE subscriptions + 1
             /\ csu' = CsuOpen(pattern, to_add)
             /\ call' = c
             /\ pc' = "loop"
             /\ UNCHANGED store

\* emplace(channel).second when adding, erase(channel) > 0 when removing
LoopChanged(to_add, local, channel) ==
  IF to_add THEN channel \notin local ELSE channel \in local
\* Mutant: a removal leaves the name in the local set.
LoopLocal_NoErase(to_add, local, channel) ==
  IF to_add THEN local \cup {channel} ELSE local
\* The local set after local_store.emplace(channel) / local_store.erase(channel).
LoopLocal(to_add, local, channel) ==
  IF to_add THEN local \cup {channel} ELSE local \ {channel}
\* Mutant: every name of the argument list is recorded, changed or not.
LoopRecord_Always(u, changed, channel) == CsuRecord(u, channel)
\* csu.Record(channel) only under the two conditions of the loop
LoopRecord(u, changed, channel) == IF changed THEN CsuRecord(u, channel) ELSE u
\* Mutant: the count leaves the patterns out.
LoopResult_ChannelsOnly(result, i, to_reply, sinfo) ==
  IF to_reply THEN [result EXCEPT ![i] = Cardinality(sinfo.channels)] ELSE result
\* if (to_reply) result[i++] = sinfo.SubscriptionCount()
LoopResult(result, i, to_reply, sinfo) ==
  IF to_reply THEN [result EXCEPT ![i] = SubscriptionCount(sinfo)] ELSE result

\* Mutant: the routing index is updated inside the loop, once per name.
CS_Loop_ApplyEach ==
  /\ pc = "loop"
  /\ UNCHANGED otherThanSub
  /\ call.i <= Len(call.args)
  /\ LET channel == call.args[call.i]
         local == LocalStore(subscribe_info, call.pattern)
         changed == LoopChanged(call.to_add, local, channel)
         sinfo == WithLocalStore(subscribe_info, call.pattern,
                                 LoopLocal(call.to_add, local, channel))
         one == CsuRecord([csu EXCEPT !.ops = <<>>], channel)
     IN /\ subscribe_info' = sinfo
        /\ store' = IF changed THEN CsuApplyStore(one, store) ELSE store
        /\ csu' = [LoopRecord(csu, changed, channel) EXCEPT
                     !.applied = IF changed THEN @ + 1 ELSE @]
        /\ call' = [call EXCEPT !.i = @ + 1,
                                !.result = LoopResult(@, call.i, call.to_reply, sinfo)]
  /\ UNCHANGED <<subscriptions, replies, entry, pc>>

\* One iteration of "for (string_view channel : channels)".
CS_Loop ==
  /\ pc = "loop"
  /\ UNCHANGED otherThanSub
  /\ call.i <= Len(call.args)
  /\ LET channel == call.args[call.i]
         local == LocalStore(subscribe_info, call.pattern)
         changed == LoopChanged(call.to_add, local, channel)
         sinfo == WithLocalStore(subscribe_info, call.pattern,
                                 LoopLocal(call.to_add, local, channel))
     IN /\ subscribe_info' = sinfo
        /\ csu' = LoopRecord(csu, changed, channel)
        /\ call' = [call EXCEPT !.i = @ + 1,
                                !.result = LoopResult(@, call.i, call.to_reply, sinfo)]
  /\ UNCHANGED <<subscriptions, store, replies, entry, pc>>

\* Mutant: the emptied SubscribeInfo is reset before Apply is called.
CS_Apply_TeardownFirst ==
  \/ /\ pc = "loop"
     /\ UNCHANGED otherThanSub
     /\ call.i > Len(call.args)
     /\ IF ~call.to_add /\ IsEmpty(subscribe_info)
        THEN /\ subscribe_info' = NoInfo
             /\ subscriptions' = subscriptions - 1
        ELSE UNCHANGED <<subscribe_info, subscriptions>>
     /\ pc' = "apply"
     /\ UNCHANGED <<store, csu, call, replies, entry>>
  \/ /\ pc = "apply"
     /\ UNCHANGED otherThanSub
     /\ store' = CsuApplyStore(csu, store)
     /\ csu' = [csu EXCEPT !.applied = @ + 1]
     /\ pc' = "reply"
     /\ UNCHANGED <<subscribe_info, subscriptions, call, replies, entry>>

\* csu.Apply(), once the loop has run over every name.
CS_Apply ==
  /\ pc = "loop"
  /\ UNCHANGED otherThanSub
  /\ call.i > Len(call.args)
  /\ store' = CsuApplyStore(csu, store)
  /\ csu' = [csu EXCEPT !.applied = @ + 1]
  /\ pc' = "teardown"
  /\ UNCHANGED <<subscribe_info, subscriptions, call, replies, entry>>

\* if (!to_add && conn_state.subscribe_info->IsEmpty())
TearsDown(to_add, sinfo) == ~to_add /\ IsEmpty(sinfo)

\* The reset of an emptied SubscribeInfo after Apply, and the return.
CS_Teardown ==
  /\ pc = "teardown"
  /\ UNCHANGED otherThanSub
  /\ IF TearsDown(call.to_add, subscribe_info)
     THEN /\ subscribe_info' = NoInfo
          /\ subscriptions' = subscriptions - 1
     ELSE UNCHANGED <<subscribe_info, subscriptions>>
  /\ pc' = "reply"
  /\ UNCHANGED <<store, csu, call, replies, entry>>

\* The frames ChangeSubscription (exact channels) and ChangePSubscription (patterns)
\* send from the result vector.
WrapperReplies(c) ==
  LET action == ActionName(c.pattern, c.to_add)
      frames == [k \in 1..Len(c.result) |->
                   SendSubscriptionChangedResponse(action, TRUE, c.args[k], c.result[k])]
  IN IF ~c.to_reply THEN <<>>
     ELSE IF c.pattern /\ Len(c.result) = 0
          THEN <<SendSubscriptionChangedResponse(action, FALSE, 0, 0)>>
          ELSE frames

SendReplies ==
  /\ pc = "reply"
  /\ UNCHANGED otherThanSub
  /\ replies' = WrapperReplies(call)
  /\ pc' = "done"
  /\ UNCHANGED <<subscribe_info, subscriptions, store, csu, call, entry>>

\* The handler returns to the dispatcher: its locals and the updater are gone.
Return ==
  /\ pc = "done"
  /\ UNCHANGED otherThanSub
  /\ pc' = "idle"
  /\ call' = NoCall
  /\ csu' = NoCsu
  /\ replies' = <<>>
  /\ entry' = NoEntry
  /\ UNCHANGED <<subscribe_info, subscriptions, store>>

ChangeSubscription ==
  /\ AtBoundary
  /\ UNCHANGED otherThanSub
  /\ \E to_add \in BOOLEAN, to_reply \in BOOLEAN, args \in ArgLists :
       ChangeSubscriptions("ChangeSubscription", args, FALSE, to_add, to_reply)

ChangePSubscription ==
  /\ AtBoundary
  /\ UNCHANGED otherThanSub
  /\ \E to_add \in BOOLEAN, to_reply \in BOOLEAN, args \in ArgLists :
       ChangeSubscriptions("ChangePSubscription", args, TRUE, to_add, to_reply)

\* Mutant: only the first name of the iteration is handed on.
Orders_First(S) == {<<x>> : x \in S}
\* The orders in which the hash set may be iterated.
Orders(S) == {f \in [1..Cardinality(S) -> S] : \A a, b \in DOMAIN f : a # b => f[a] # f[b]}

\* Mutant: the test for an absent SubscribeInfo is missing.
UnsubAllReplyNull_NoNullCheck(to_reply, sinfo, pattern) ==
  to_reply /\ sinfo.present /\ LocalStore(sinfo, pattern) = {}
\* to_reply && (!subscribe_info || set.empty())
UnsubAllReplyNull(to_reply, sinfo, pattern) ==
  to_reply /\ (~sinfo.present \/ LocalStore(sinfo, pattern) = {})

\* UnsubscribeAll (pattern = FALSE) and PUnsubscribeAll (pattern = TRUE).  Without the
\* null-topic reply the set of an absent SubscribeInfo is read through a null
\* pointer: the build either faults or reads nothing.
UnsubscribeAllOf(op, pattern, to_reply) ==
  IF UnsubAllReplyNull(to_reply, subscribe_info, pattern)
  THEN /\ replies' = <<SendSubscriptionChangedResponse(ActionName(pattern, FALSE),
                                                       FALSE, 0, 0)>>
       /\ call' = [NoCall EXCEPT !.op = op, !.pattern = pattern, !.to_reply = to_reply,
                                 !.early = TRUE]
       /\ entry' = Snapshot
       /\ csu' = NoCsu
       /\ pc' = "done"
       /\ UNCHANGED <<subscribe_info, subscriptions, store>>
  ELSE IF ~subscribe_info.present
       THEN \/ /\ pc' = "crashed"
               /\ call' = [NoCall EXCEPT !.op = op, !.pattern = pattern,
                                         !.to_reply = to_reply]
               /\ entry' = Snapshot
               /\ csu' = NoCsu
               /\ replies' = <<>>
               /\ UNCHANGED <<subscribe_info, subscriptions, store>>
            \/ ChangeSubscriptions(op, <<>>, pattern, FALSE, to_reply)
       ELSE \E args \in Orders(LocalStore(subscribe_info, pattern)) :
              ChangeSubscriptions(op, args, pattern, FALSE, to_reply)

UnsubscribeAll ==
  /\ AtBoundary
  /\ UNCHANGED otherThanSub
  /\ \E to_reply \in BOOLEAN : UnsubscribeAllOf("UnsubscribeAll", FALSE, to_reply)

PUnsubscribeAll ==
  /\ AtBoundary
  /\ UNCHANGED otherThanSub
  /\ \E to_reply \in BOOLEAN : UnsubscribeAllOf("PUnsubscribeAll", TRUE, to_reply)

\* Mutant: the emptied SubscribeInfo is reset but the counter is left as it is.
Unsubscribe_NoDecrement ==
  /\ AtBoundary
  /\ UNCHANGED otherThanSub
  /\ subscribe_info.present
  /\ \E channel \in subscribe_info.channels :
       LET sinfo == [subscribe_info EXCEPT !.channels = @ \ {channel}]
       IN /\ subscribe_info' = IF IsEmpty(sinfo) THEN NoInfo ELSE sinfo
          /\ call' = [NoCall EXCEPT !.op = "Unsubscribe", !.args = <<channel>>]
  /\ entry' = Snapshot
  /\ csu' = NoCsu
  /\ replies' = <<>>
  /\ pc' = "done"
  /\ UNCHANGED <<store, subscriptions>>

\* Unsubscribe(channel); its two DCHECKs are the caller's contract.
Unsubscribe ==
  /\ AtBoundary
  /\ UNCHANGED otherThanSub
  /\ subscribe_info.present
  /\ \E channel \in subscribe_info.channels :
       LET sinfo == [subscribe_info EXCEPT !.channels = @ \ {channel}]
       IN /\ IF IsEmpty(sinfo)
             THEN /\ subscribe_info' = NoInfo
                  /\ subscriptions' = subscriptions - 1
             ELSE /\ subscribe_info' = sinfo
                  /\ UNCHANGED subscriptions
          /\ call' = [NoCall EXCEPT !.op = "Unsubscribe", !.args = <<channel>>]
  /\ entry' = Snapshot
  /\ csu' = NoCsu
  /\ replies' = <<>>
  /\ pc' = "done"
  /\ UNCHANGED store

\* ------------------------------------------------------------ ChangeMonitor
Shards == 1..NumShards
Conns == 1..NumConns

\* MonitorsRepo::Add / Remove on the calling thread's list
MonitorsAdd(list, c) == list \cup {c}
MonitorsRemove(list, c) == list \ {c}
\* MonitorsRepo::NotifyChangeCount(added)
NotifyChangeCount(count, added) == IF added THEN count + 1 ELSE count - 1

MonIdle == [pc |-> "idle", start |-> FALSE, pending |-> {}]

\* Mutant: the broadcast leaves out the calling thread.
CM_Register_SkipOwn ==
  /\ \E c \in Conns, start \in BOOLEAN :
       /\ mon_call[c].pc \in {"idle", "returned"}
       /\ start # monitoring[c]
       /\ mon_list' = [mon_list EXCEPT ![conn_shard[c]] =
                         IF start THEN MonitorsAdd(@, c) ELSE MonitorsRemove(@, c)]
       /\ mon_call' = [mon_call EXCEPT ![c] =
                         [pc |-> "await", start |-> start,
                          pending |-> Shards \ {conn_shard[c]}]]
  /\ UNCHANGED <<conn_shard, mon_count, monitoring>>
  /\ UNCHANGED otherThanMon

\* ChangeMonitor(start) up to the broadcast: the calling thread's list is changed,
\* then AwaitBrief hands the callback to every thread of the pool.  MONITOR and the
\* connection's close call it in matching pairs.
CM_Register ==
  /\ \E c \in Conns, start \in BOOLEAN :
       /\ mon_call[c].pc \in {"idle", "returned"}
       /\ start # monitoring[c]
       /\ mon_list' = [mon_list EXCEPT ![conn_shard[c]] =
                         IF start THEN MonitorsAdd(@, c) ELSE MonitorsRemove(@, c)]
       /\ mon_call' = [mon_call EXCEPT ![c] =
                         [pc |-> "await", start |-> start, pending |-> Shards]]
  /\ UNCHANGED <<conn_shard, mon_count, monitoring>>
  /\ UNCHANGED otherThanMon

\* One shard thread runs the callback of one broadcast.
CM_Notify ==
  /\ \E c \in Conns, s \in Shards :
       /\ mon_call[c].pc = "await"
       /\ s \in mon_call[c].pending
       /\ mon_count' = [mon_count EXCEPT ![s] = NotifyChangeCount(@, mon_call[c].start)]
       /\ mon_call' = [mon_call EXCEPT ![c].pending = @ \ {s}]
  /\ UNCHANGED <<conn_shard, mon_list, monitoring>>
  /\ UNCHANGED otherThanMon

\* Mutant: the broadcast does not wait for the callbacks (a dispatch, not an await).
AwaitDone_NoWait(pending) == TRUE
\* AwaitBrief returns once every thread has run the callback.
AwaitDone(pending) == pending = {}

\* AwaitBrief returns; EnableMonitoring(start); ChangeMonitor returns.
CM_Return ==
  /\ \E c \in Conns :
       /\ mon_call[c].pc = "await"
       /\ AwaitDone(mon_call[c].pending)
       /\ monitoring' = [monitoring EXCEPT ![c] = mon_call[c].start]
       /\ mon_call' = [mon_call EXCEPT ![c].pc = "returned"]
  /\ UNCHANGED <<conn_shard, mon_list, mon_count>>
  /\ UNCHANGED otherThanMon

MonInit ==
  /\ conn_shard \in [Conns -> Shards]
  /\ mon_list = [s \in Shards |-> {}]
  /\ mon_count = [s \in Shards |-> 0]
  /\ mon_call = [c \in Conns |-> MonIdle]
  /\ monitoring = [c \in Conns |-> FALSE]

\* The components a specification does not exercise stay as constructed.
MonRest ==
  /\ conn_shard = [c \in Conns |-> 1]
  /\ mon_list = [s \in Shards |-> {}]
  /\ mon_count = [s \in Shards |-> 0]
  /\ mon_call = [c \in Conns |-> MonIdle]
  /\ monitoring = [c \in Conns |-> FALSE]

\* ------------------------------------------------- construction and forking
CtxIds == 1..MaxCtx
Families == 1..NumFamilies
\* acl::NONE_COMMANDS
NONE_COMMANDS == 0
\* The values one family's bitmap takes here: no command, or some commands.
Bitmaps == {NONE_COMMANDS, 1}
\* The connections a root context is built on: none, or one with its two listener bits.
Owners == {[present |-> FALSE, privileged |-> FALSE, main |-> FALSE],
           [present |-> TRUE, privileged |-> FALSE, main |-> TRUE],
           [present |-> TRUE, privileged |-> TRUE, main |-> FALSE]}
\* acl::UserCredentials: an empty acl_commands stands for "none supplied".
Credentials == [keys : {"k0", "k1"}, pub_sub : {"p0"},
                acl_commands : {<<>>, [f \in Families |-> 1]}, db : {0, 1}]
Namespaces == {"ns0"}

\* A context not constructed yet, and the members' default initialisers.
NoCtx == [exists |-> FALSE, kind |-> "none", owner |-> 0, conn |-> FALSE,
          acl_commands |-> 0, keys |-> "", pub_sub |-> "",
          skip_acl_validation |-> FALSE, has_main_or_memcache_listener |-> FALSE,
          acl_db_idx |-> 0, ns |-> "null", transaction |-> FALSE,
          db_index |-> 0, squashing_info |-> 0, cred_acl |-> <<>>]

\* std::vector<uint64_t>(acl::NumberOfFamilies(), acl::NONE_COMMANDS)
NoneAcl == [f \in Families |-> NONE_COMMANDS]

NextId == CHOOSE n \in CtxIds : ~ctx[n].exists /\ \A m \in 1..(n - 1) : ctx[m].exists

\* ConnectionContext(facade::Connection* owner, acl::UserCredentials cred)
NewRootContext ==
  /\ \A n \in CtxIds : ~ctx[n].exists
  /\ \E owner \in Owners, cred \in Credentials, ns \in Namespaces :
       /\ ctx' = [ctx EXCEPT ![1] =
            [NoCtx EXCEPT !.exists = TRUE, !.kind = "root",
               !.conn = owner.present,
               !.skip_acl_validation = owner.present /\ owner.privileged,
               !.has_main_or_memcache_listener = owner.present /\ owner.main,
               !.keys = cred.keys,
               !.pub_sub = cred.pub_sub,
               !.acl_commands = 1,
               !.acl_db_idx = cred.db,
               !.cred_acl = cred.acl_commands,
               !.ns = ns]]
       /\ acl_heap' = [acl_heap EXCEPT ![1] =
            IF cred.acl_commands = <<>> THEN NoneAcl ELSE cred.acl_commands]
  /\ UNCHANGED acl_writes
  /\ UNCHANGED otherThanCtx

\* Mutant: the child refers to the parent's vector instead of holding a copy.
CopyAcl_Alias(owner, id) ==
  [ref |-> owner.acl_commands, contents |-> acl_heap[owner.acl_commands]]
\* acl_commands = owner->acl_commands: the child's own vector, filled with a copy.
CopyAcl(owner, id) ==
  [ref |-> id, contents |-> acl_heap[owner.acl_commands]]

\* Mutant: the database index and the back-reference are taken from any parent,
\* with or without a transaction.
SquashFields_Always(copied, o, tx) ==
  IF o # 0
  THEN [copied EXCEPT !.db_index = ctx[o].db_index, !.squashing_info = o]
  ELSE copied
\* if (tx) { conn_state.db_index = owner->conn_state.db_index;
\*           conn_state.squashing_info = {owner}; }
SquashFields(copied, o, tx) ==
  IF tx
  THEN [copied EXCEPT !.db_index = ctx[o].db_index, !.squashing_info = o]
  ELSE copied

\* ConnectionContext(const ConnectionContext* owner, Transaction* tx); tx without an
\* owner is excluded by DCHECK(owner).
ForkContext ==
  /\ \E n \in CtxIds : ~ctx[n].exists
  /\ \E o \in {0} \cup {m \in CtxIds : ctx[m].exists}, tx \in BOOLEAN :
       /\ tx => o # 0
       /\ LET id == NextId
              acl == IF o # 0 THEN CopyAcl(ctx[o], id)
                     ELSE [ref |-> id, contents |-> NoneAcl]
              base == [NoCtx EXCEPT !.exists = TRUE, !.kind = "fork", !.owner = o,
                                    !.conn = FALSE, !.transaction = tx,
                                    !.acl_commands = acl.ref]
              copied == IF o # 0
                        THEN [base EXCEPT
                                !.keys = ctx[o].keys,
                                !.pub_sub = ctx[o].pub_sub,
                                !.skip_acl_validation = ctx[o].skip_acl_validation,
                                !.acl_db_idx = ctx[o].acl_db_idx,
                                !.ns = ctx[o].ns,
                                !.has_main_or_memcache_listener =
                                   IF ctx[o].conn THEN ctx[o].has_main_or_memcache_listener
                                   ELSE base.has_main_or_memcache_listener]
                        ELSE base
              child == SquashFields(copied, o, tx)
          IN /\ ctx' = [ctx EXCEPT ![id] = child]
             /\ acl_heap' = [acl_heap EXCEPT ![acl.ref] = acl.contents]
  /\ UNCHANGED acl_writes
  /\ UNCHANGED otherThanCtx

\* The connection of a root context selects another database (SELECT).
SelectDb ==
  /\ \E c \in CtxIds, db \in {0, 1} :
       /\ ctx[c].exists
       /\ ctx[c].kind = "root"
       /\ ctx[c].db_index # db
       /\ ctx' = [ctx EXCEPT ![c].db_index = db]
  /\ UNCHANGED <<acl_heap, acl_writes>>
  /\ UNCHANGED otherThanCtx

\* A later write to one context's ACL bitmap (an ACL update reaching that context).
WriteAcl ==
  /\ \E c \in CtxIds, f \in Families, v \in Bitmaps :
       /\ ctx[c].exists
       /\ acl_heap[ctx[c].acl_commands][f] # v
       /\ acl_writes < MaxAclWrites
       /\ acl_heap' = [acl_heap EXCEPT ![ctx[c].acl_commands][f] = v]
       /\ acl_writes' = acl_writes + 1
  /\ UNCHANGED ctx
  /\ UNCHANGED otherThanCtx

CtxInit ==
  /\ ctx = [n \in CtxIds |-> NoCtx]
  /\ acl_heap = [n \in CtxIds |-> NoneAcl]
  /\ acl_writes = 0

\* ---------------------------------------------------------- client tracking
SeqMod == 2 ^ SeqBits
SeqNums == 0..(SeqMod - 1)
Options == {"NONE", "OPTIN", "OPTOUT"}
TrackingStates == [tracking_enabled : BOOLEAN, noloop : BOOLEAN, option : Options,
                   seq_num : SeqNums, caching_seq_num : SeqNums]

\* Mutant: the two options are exchanged.
ShouldTrackKeys_Swapped(t) ==
  IF ~t.tracking_enabled THEN FALSE
  ELSE IF t.noloop THEN FALSE
  ELSE IF t.option = "NONE" THEN TRUE
  ELSE LET match == (t.seq_num = (1 + t.caching_seq_num) % SeqMod)
       IN IF t.option = "OPTIN" THEN ~match ELSE match
\* ConnectionState::ClientTracking::ShouldTrackKeys
ShouldTrackKeys(t) ==
  IF ~t.tracking_enabled THEN FALSE
  ELSE IF t.noloop THEN FALSE
  ELSE IF t.option = "NONE" THEN TRUE
  ELSE LET match == (t.seq_num = (1 + t.caching_seq_num) % SeqMod)
       IN IF t.option = "OPTIN" THEN match ELSE ~match

NotAsked == [called |-> FALSE, value |-> FALSE,
             seen |-> [tracking_enabled |-> FALSE, noloop |-> FALSE, option |-> "NONE",
                       seq_num |-> 0, caching_seq_num |-> 0]]

\* A call of the const method: the object is read, not written.
CallShouldTrackKeys ==
  /\ ~should_track.called
  /\ should_track' = [called |-> TRUE, value |-> ShouldTrackKeys(tracking),
                      seen |-> tracking]
  /\ UNCHANGED tracking
  /\ UNCHANGED otherThanTrk

TrkInit ==
  /\ tracking \in TrackingStates
  /\ should_track = NotAsked

TrkRest ==
  /\ tracking = NotAsked.seen
  /\ should_track = NotAsked

\* ------------------------------------------------------------------ StoredCmd
Bytes == {"a", "b"}
\* The byte std::string::resize fills with.
ZeroByte == "0"
ByteStrings == UNION {[1..n -> Bytes] : n \in 0..MaxArgLen}
CmdArgLists == UNION {[1..n -> ByteStrings] : n \in 0..MaxCmdArgs}
\* What the caller's scratch vector may hold from earlier use.
ScratchStates == {[k \in 1..n |-> <<"b">>] : n \in {0, 1, MaxCmdArgs + 1}}

NotBuilt == [built |-> FALSE, owned |-> FALSE, adopted |-> FALSE,
             slice |-> <<>>, sizes |-> <<>>, buffer |-> <<>>]

\* for (auto args : args) total_size += args.size()
RECURSIVE TotalSize(_, _)
TotalSize(args, i) == IF i > Len(args) THEN 0 ELSE Len(args[i]) + TotalSize(args, i + 1)

\* memcpy(next, args[i].data(), args[i].size())
Memcpy(buffer, next, arg) ==
  [k \in 1..Len(buffer) |->
     IF k > next /\ k <= next + Len(arg) THEN arg[k - next] ELSE buffer[k]]

\* The copying loop of the owning constructor, from argument i with write position next.
RECURSIVE CopyArgs(_, _, _, _)
CopyArgs(own, args, i, next) ==
  IF i > Len(args) THEN own
  ELSE CopyArgs([own EXCEPT !.buffer = IF Len(args[i]) > 0 THEN Memcpy(@, next, args[i]) ELSE @,
                            !.sizes[i] = Len(args[i])],
                args, i + 1, next + Len(args[i]))

\* StoredCmd(const CommandId* cid, bool own_args, ArgSlice args)
StoredCmdCtor(own_args, args) ==
  IF ~own_args
  THEN [NotBuilt EXCEPT !.built = TRUE, !.slice = args]
  ELSE LET own == [NotBuilt EXCEPT !.built = TRUE, !.owned = TRUE,
                                   !.sizes = [k \in 1..Len(args) |-> 0],
                                   !.buffer = [k \in 1..TotalSize(args, 1) |-> ZeroByte]]
       IN CopyArgs(own, args, 1, 0)

\* string_view{s.buffer.data() + offset, s.sizes[i]}
StringView(buffer, offset, size) == [k \in 1..size |-> buffer[offset + k]]

\* Mutant: the offset is not advanced past the argument just viewed.
RECURSIVE OwnedViews_NoOffset(_, _, _, _)
OwnedViews_NoOffset(s, vec, i, offset) ==
  IF i > Len(s.sizes) THEN vec
  ELSE OwnedViews_NoOffset(s, [vec EXCEPT ![i] = StringView(s.buffer, offset, s.sizes[i])],
                           i + 1, offset)
\* The loop of ArgList over the owned storage, from argument i at the given offset.
RECURSIVE OwnedViews(_, _, _, _)
OwnedViews(s, vec, i, offset) ==
  IF i > Len(s.sizes) THEN vec
  ELSE OwnedViews(s, [vec EXCEPT ![i] = StringView(s.buffer, offset, s.sizes[i])],
                  i + 1, offset + s.sizes[i])

\* scratch->resize(n): the first elements are kept, new ones are empty views.
Resize(vec, n) == [k \in 1..n |-> IF k <= Len(vec) THEN vec[k] ELSE <<>>]

NotListed == [called |-> FALSE, value |-> <<>>, given |-> <<>>]

\* The constructor captures the caller's arguments, owning or borrowing.
CaptureCmd ==
  /\ ~stored.built
  /\ \E own_args \in BOOLEAN : stored' = StoredCmdCtor(own_args, cmd_args)
  /\ UNCHANGED <<cmd_args, scratch, arg_list, cmd_buffer, layout, used_memory>>
  /\ UNCHANGED otherThanCmd

\* StoredCmd(std::string&& buffer, const CommandId* cid, ArgSlice args, ReplyMode mode):
\* the buffer is adopted as it is and every size is read from the argument.
StoredCmdAdopt(buffer, args) ==
  [NotBuilt EXCEPT !.built = TRUE, !.owned = TRUE, !.adopted = TRUE,
                   !.buffer = buffer,
                   !.sizes = [k \in 1..Len(args) |-> Len(args[k])]]

\* The adopting constructor is handed the caller's buffer and the views into it.
AdoptCmd ==
  /\ ~stored.built
  /\ stored' = StoredCmdAdopt(cmd_buffer, cmd_args)
  /\ UNCHANGED <<cmd_args, scratch, arg_list, cmd_buffer, layout, used_memory>>
  /\ UNCHANGED otherThanCmd

\* StoredCmd::ArgList(CmdArgVec* scratch)
ArgList ==
  /\ stored.built
  /\ ~arg_list.called
  /\ IF stored.owned
     THEN LET vec == OwnedViews(stored, Resize(scratch, Len(stored.sizes)), 1, 0)
          IN /\ scratch' = vec
             /\ arg_list' = [called |-> TRUE, value |-> vec, given |-> scratch]
     ELSE /\ scratch' = scratch
          /\ arg_list' = [called |-> TRUE, value |-> stored.slice, given |-> scratch]
  /\ UNCHANGED <<cmd_args, stored, cmd_buffer, layout, used_memory>>
  /\ UNCHANGED otherThanCmd

\* Addresses, counted from the start of the owned storage: the buffer object lies
\* at BufferAt, the sizes object right after it.
BufferAt == 0
SizesAt == BufferAt + SizeofC
Addrs == (BufferAt - 1)..(SizesAt + SizeofC + 1)
Layouts == [buffer_data : Addrs, sizes_data : Addrs,
            buffer_capacity : 1..MaxCap, sizes_memsize : 1..MaxCap]
NoLayout == [buffer_data |-> BufferAt, sizes_data |-> SizesAt,
             buffer_capacity |-> 1, sizes_memsize |-> 1]

\* IsStoredInlined(const C& c): start = &c, end = start + sizeof(C), data = c.data()
IsStoredInlined(start, data) ==
  LET end == start + SizeofC
  IN data >= start /\ data <= end

\* StoredCmd::UsedMemory()
UsedMemory(s, l) ==
  IF s.owned
  THEN LET buffer_size == IF IsStoredInlined(BufferAt, l.buffer_data)
                          THEN 0 ELSE l.buffer_capacity
           sz_size == IF IsStoredInlined(SizesAt, l.sizes_data)
                      THEN 0 ELSE l.sizes_memsize
       IN buffer_size + sz_size
  ELSE 0

NotMeasured == [called |-> FALSE, value |-> 0]

\* A call of the const method: the object is read, not written.
CallUsedMemory ==
  /\ stored.built
  /\ ~used_memory.called
  /\ used_memory' = [called |-> TRUE, value |-> UsedMemory(stored, layout)]
  /\ UNCHANGED <<cmd_args, stored, scratch, arg_list, cmd_buffer, layout>>
  /\ UNCHANGED otherThanCmd

\* All the bytes of the arguments from argument i on, in order.
RECURSIVE Flatten(_, _)
Flatten(args, i) == IF i > Len(args) THEN <<>> ELSE args[i] \o Flatten(args, i + 1)

\* Bytes of the caller's buffer that belong to no argument.
Pads == {[k \in 1..n |-> "b"] : n \in 0..MaxPad}
\* The buffers the arguments can be consecutive slices of.
BuffersOf(args) == {pre \o Flatten(args, 1) \o post : pre \in Pads, post \in Pads}

CmdInit ==
  /\ cmd_args \in CmdArgLists
  /\ cmd_buffer \in BuffersOf(cmd_args)
  /\ scratch \in ScratchStates
  /\ stored = NotBuilt
  /\ arg_list = NotListed
  /\ layout = NoLayout
  /\ used_memory = NotMeasured

\* The inputs of UsedMemory: a short command, every placement of the two containers.
MemInit ==
  /\ cmd_args \in {a \in CmdArgLists : Len(a) <= 1 /\ \A k \in 1..Len(a) : a[k] = <<"a">>}
  /\ cmd_buffer = Flatten(cmd_args, 1)
  /\ scratch = <<>>
  /\ stored = NotBuilt
  /\ arg_list = NotListed
  /\ layout \in Layouts
  /\ used_memory = NotMeasured

CmdRest ==
  /\ cmd_args = <<>>
  /\ cmd_buffer = <<>>
  /\ scratch = <<>>
  /\ stored = NotBuilt
  /\ arg_list = NotListed
  /\ layout = NoLayout
  /\ used_memory = NotMeasured

SubInit ==
  /\ subscribe_info = NoInfo
  /\ subscriptions = 0
  /\ store = EmptyStore
  /\ csu = NoCsu
  /\ call = NoCall
  /\ replies = <<>>
  /\ entry = NoEntry
  /\ pc = "idle"

Init == SubInit /\ MonRest /\ CtxInit /\ TrkRest /\ CmdRest

Next ==
  \/ ChangeSubscription
  \/ ChangePSubscription
  \/ UnsubscribeAll
  \/ PUnsubscribeAll
  \/ Unsubscribe
  \/ CS_Loop
  \/ CS_Apply
  \/ CS_Teardown
  \/ SendReplies
  \/ Return

Spec == Init /\ [][Next]_vars

\* ChangeSubscriptions and its wrappers only: the calls that go through the updater.
NextChange ==
  \/ ChangeSubscription
  \/ ChangePSubscription
  \/ UnsubscribeAll
  \/ PUnsubscribeAll
  \/ CS_Loop
  \/ CS_Apply
  \/ CS_Teardown
  \/ SendReplies
  \/ Return

SpecChange == Init /\ [][NextChange]_vars

NextMonitor ==
  \/ CM_Register
  \/ CM_Notify
  \/ CM_Return

InitMonitor == SubInit /\ MonInit /\ CtxInit /\ TrkRest /\ CmdRest

SpecMonitor == InitMonitor /\ [][NextMonitor]_vars

NextFork ==
  \/ NewRootContext
  \/ ForkContext
  \/ SelectDb
  \/ WriteAcl

SpecFork == Init /\ [][NextFork]_vars

NextTracking ==
  \/ CallShouldTrackKeys

InitTracking == SubInit /\ MonRest /\ CtxInit /\ TrkInit /\ CmdRest

SpecTracking == InitTracking /\ [][NextTracking]_vars

NextStoredCmd ==
  \/ CaptureCmd
  \/ AdoptCmd
  \/ ArgList

InitStoredCmd == SubInit /\ MonRest /\ CtxInit /\ TrkRest /\ CmdInit

SpecStoredCmd == InitStoredCmd /\ [][NextStoredCmd]_vars

NextUsedMemory ==
  \/ CaptureCmd
  \/ AdoptCmd
  \/ CallUsedMemory

InitUsedMemory == SubInit /\ MonRest /\ CtxInit /\ TrkRest /\ MemInit

SpecUsedMemory == InitUsedMemory /\ [][NextUsedMemory]_vars

\* ------------------------------------------------------------------ claims
NoDup(s) == \A a, b \in 1..Len(s) : a # b => s[a] # s[b]
OtherStore(s, pattern) == LocalStore(s, ~pattern)

\* C1: at every operation boundary the Subscribe Info is present if and only if at
\* least one of its two sets is non-empty.
C1_PresentIffNonEmpty ==
  pc \in {"idle", "done"} => (subscribe_info.present <=> ~IsEmpty(subscribe_info))

\* C2: in a removing call the Subscribe Info is torn down and the counter decremented
\* by exactly one only after the updater's Apply() has completed: while the update is
\* recorded but unapplied the Subscribe Info is present and the counter untouched.
C2_TeardownAfterApply ==
  /\ (csu.open /\ ~csu.to_add /\ csu.applied = 0) =>
       (subscribe_info.present /\ subscriptions = entry.subs)
  /\ (csu.open /\ ~csu.to_add /\ ~subscribe_info.present) =>
       (csu.applied = 1 /\ subscriptions = entry.subs - 1 /\ pc \in {"reply", "done"})
  /\ (csu.open /\ ~csu.to_add /\ pc \in {"reply", "done"}) =>
       (subscribe_info.present <=> ~IsEmpty(subscribe_info))

C2_Witness ==
  /\ pc = "done" /\ csu.open /\ ~csu.to_add /\ csu.applied = 1
  /\ entry.info.present /\ ~subscribe_info.present
  /\ Len(csu.ops) > 0 /\ subscriptions = entry.subs - 1

AddReplied ==
  pc = "done" /\ call.op \in {"ChangeSubscription", "ChangePSubscription"}
  /\ call.to_add /\ call.to_reply

\* C3 as stated: every element of the result of an adding call equals the total
\* subscription count after the whole call.
C3_EveryElementIsFinalTotal ==
  AddReplied => \A k \in 1..Len(call.result) :
                  call.result[k] = SubscriptionCount(subscribe_info)

\* C3 amended: element k of the result of an adding call is the total subscription
\* count right after the k-th name was inserted (a running count), so only the last
\* element equals the total after the whole call.
C3_ElementIsRunningTotal ==
  AddReplied =>
    /\ Len(call.result) = Len(call.args)
    /\ \A k \in 1..Len(call.result) :
         call.result[k] =
           Cardinality(LocalStore(entry.info, call.pattern) \cup {call.args[j] : j \in 1..k})
           + Cardinality(OtherStore(entry.info, call.pattern))
    /\ Len(call.result) > 0 =>
         call.result[Len(call.result)] = SubscriptionCount(subscribe_info)

C3_Witness ==
  /\ AddReplied /\ entry.info.present /\ Len(call.args) = 2
  /\ OtherStore(entry.info, call.pattern) # {}
  /\ call.args[1] \in LocalStore(entry.info, call.pattern)
  /\ call.args[2] \notin LocalStore(entry.info, call.pattern)
  /\ call.result[1] + 1 = call.result[2]

\* C4: a call that gets past the early return applies the routing update exactly
\* once, after every name was processed; the index is untouched during the loop and
\* by a call that returned early.
C4_ApplyExactlyOnce ==
  /\ pc = "loop" => (csu.open /\ csu.applied = 0 /\ store = entry.store)
  /\ (csu.open /\ pc \in {"teardown", "reply", "done"}) =>
       (csu.applied = 1 /\ call.i = Len(call.args) + 1)
  /\ (~csu.open /\ pc # "idle") => (csu.applied = 0 /\ store = entry.store)

C4_Witness ==
  /\ pc = "done" /\ csu.open /\ csu.applied = 1
  /\ Len(call.args) = 2 /\ call.args[1] = call.args[2]
  /\ store # entry.store

\* C5: a name is recorded with the updater only when the call changed the local
\* set's membership of it, each such name once; after any sequence of
\* ChangeSubscriptions calls the names registered in the routing index for a mode
\* are the connection's local set of that mode.
C5_RecordedIffChanged ==
  /\ csu.open =>
       LET before == LocalStore(entry.info, csu.pattern)
           now == LocalStore(subscribe_info, csu.pattern)
       IN /\ NoDup(csu.ops)
          /\ Range(csu.ops) = IF csu.to_add THEN now \ before ELSE before \ now
  /\ pc \in {"idle", "done"} =>
       (store.channels = subscribe_info.channels /\ store.patterns = subscribe_info.patterns)

C5_Witness ==
  /\ pc = "done" /\ csu.open /\ Len(call.args) = 2 /\ call.args[1] = call.args[2]
  /\ Len(csu.ops) = 1 /\ store # entry.store

\* C6: UnsubscribeAll / PUnsubscribeAll with a reply requested and no Subscribe Info
\* sends exactly one frame [action, null, 0], creates no Subscribe Info, leaves the
\* counter unchanged and performs no routing update.
C6_UnsubscribeAllOnEmpty ==
  (call.op \in {"UnsubscribeAll", "PUnsubscribeAll"} /\ call.to_reply /\ ~entry.info.present) =>
    /\ pc = "done"
    /\ replies = <<[action |-> IF call.op = "UnsubscribeAll" THEN "unsubscribe"
                                ELSE "punsubscribe",
                    null_topic |-> TRUE, topic |-> 0, count |-> 0]>>
    /\ ~subscribe_info.present
    /\ subscriptions = entry.subs
    /\ store = entry.store
    /\ ~csu.open /\ csu.applied = 0

C6_Witness ==
  /\ pc = "done" /\ call.op = "PUnsubscribeAll" /\ call.to_reply
  /\ ~entry.info.present /\ Len(replies) = 1

\* Whether shard s counts connection c at this moment.
CountedOn(c, s) ==
  IF mon_call[c].pc = "await"
  THEN (mon_call[c].start <=> s \notin mon_call[c].pending)
  ELSE monitoring[c]

\* C7: ChangeMonitor(start) changes the calling shard's monitor list first, then
\* broadcasts the count update, and flips the monitoring flag and returns only after
\* every shard thread has applied NotifyChangeCount(start).
C7_MonitorBarrier ==
  \A c \in Conns :
    /\ (c \in mon_list[conn_shard[c]]) <=>
         (IF mon_call[c].pc = "await" THEN mon_call[c].start ELSE monitoring[c])
    /\ mon_call[c].pc = "await" => monitoring[c] = ~mon_call[c].start
    /\ mon_call[c].pc = "returned" =>
         /\ mon_call[c].pending = {}
         /\ monitoring[c] = mon_call[c].start
    /\ \A s \in Shards :
         mon_count[s] = Cardinality({d \in Conns : CountedOn(d, s)})

C7_Witness ==
  \E c, d \in Conns :
    /\ c # d
    /\ mon_call[c].pc = "returned" /\ mon_call[c].start /\ monitoring[c]
    /\ mon_call[d].pc = "await" /\ mon_call[d].pending # {} /\ mon_call[d].pending # Shards
    /\ \A s \in Shards : mon_count[s] >= 1

\* A context with its ACL bitmap read through its vector.
View(c) == [ctx[c] EXCEPT !.acl_commands = acl_heap[ctx[c].acl_commands]]

\* C8: forking leaves every field of the parent (and of every other context)
\* unchanged, gives the child no connection handle and copies of the parent's ACL
\* bitmap, key patterns and pub/sub patterns; a later write to one context's ACL
\* bitmap changes no other context's bitmap, parent or child or sibling.
C8_ForkIsolation ==
  [][/\ \A p \in CtxIds : (ctx[p].exists /\ acl_heap' # acl_heap) => ctx'[p] = ctx[p]
     /\ \A n \in CtxIds : (~ctx[n].exists /\ ctx'[n].exists) =>
          /\ \A p \in CtxIds : ctx[p].exists => View(p)' = View(p)
          /\ ctx'[n].kind = "fork" =>
               /\ ~ctx'[n].conn
               /\ ctx'[n].owner # 0 =>
                    /\ View(n)'.acl_commands = View(ctx'[n].owner).acl_commands
                    /\ ctx'[n].keys = ctx[ctx'[n].owner].keys
                    /\ ctx'[n].pub_sub = ctx[ctx'[n].owner].pub_sub
     /\ \A p, q \in CtxIds :
          (p # q /\ ctx[p].exists /\ ctx[q].exists /\ View(p)' # View(p)) =>
            View(q)' = View(q)
    ]_vars

C8_Witness ==
  \E p, c, d \in CtxIds :
    /\ c # d /\ ctx[p].exists /\ ctx[c].exists /\ ctx[d].exists
    /\ ctx[c].owner = p /\ ctx[d].owner = p
    /\ View(c).acl_commands # View(p).acl_commands
    /\ View(d).acl_commands = View(p).acl_commands

\* C9: ShouldTrackKeys() is false when tracking is off, false when no-loop is set,
\* true when the option is NONE, for OPTIN true iff seq_num = caching_seq_num + 1, for
\* OPTOUT true iff seq_num # caching_seq_num + 1 (in the counters' arithmetic), and
\* it leaves the tracking state as it found it.
C9_TrackingTable ==
  should_track.called =>
    LET t == should_track.seen
        next == (t.caching_seq_num + 1) % SeqMod
    IN /\ tracking = t
       /\ ~t.tracking_enabled => ~should_track.value
       /\ t.noloop => ~should_track.value
       /\ (t.tracking_enabled /\ ~t.noloop) =>
            /\ t.option = "NONE" => should_track.value
            /\ t.option = "OPTIN" => (should_track.value <=> t.seq_num = next)
            /\ t.option = "OPTOUT" => (should_track.value <=> t.seq_num # next)

C9_Witness ==
  /\ should_track.called /\ ~should_track.value
  /\ tracking.tracking_enabled /\ ~tracking.noloop /\ tracking.option = "OPTOUT"
  /\ tracking.seq_num = tracking.caching_seq_num + 1

\* C10: for any sequence of byte strings captured with own_args = true, ArgList
\* returns a sequence of the same length whose i-th element has exactly the bytes of
\* the i-th input, whatever the scratch vector held before.
C10_OwnedRoundTrip ==
  (arg_list.called /\ stored.owned /\ ~stored.adopted) =>
    /\ Len(arg_list.value) = Len(cmd_args)
    /\ \A k \in 1..Len(cmd_args) : arg_list.value[k] = cmd_args[k]

C10_Witness ==
  /\ arg_list.called /\ stored.owned /\ ~stored.adopted
  /\ Len(cmd_args) = 2 /\ cmd_args[1] = <<>> /\ Len(cmd_args[2]) = 2
  /\ Len(arg_list.given) > Len(cmd_args)
  /\ arg_list.value = cmd_args

\* Every view of the list lies inside the buffer: its bytes are bytes of the buffer.
RECURSIVE ViewsInside(_, _, _)
ViewsInside(s, i, offset) ==
  \/ i > Len(s.sizes)
  \/ /\ offset + s.sizes[i] <= Len(s.buffer)
     /\ ViewsInside(s, i + 1, offset + s.sizes[i])

RECURSIVE SumSizes(_, _)
SumSizes(sizes, i) == IF i > Len(sizes) THEN 0 ELSE sizes[i] + SumSizes(sizes, i + 1)

\* C11: for every StoredCmd holding the owned representation, whichever constructor
\* built it, the recorded sizes sum to the length of the packed buffer and every
\* view ArgList reconstructs lies inside the buffer.
C11_SizesTileBuffer ==
  (stored.built /\ stored.owned) =>
    /\ SumSizes(stored.sizes, 1) = Len(stored.buffer)
    /\ ViewsInside(stored, 1, 0)

\* The data pointer lies within the object's own extent: the first address past the
\* object belongs to it no longer.
WithinExtent(start, data) == data >= start /\ data < start + SizeofC

\* C12: UsedMemory is 0 for a borrowed StoredCmd; for an owned one each container
\* contributes 0 exactly when its data pointer lies within the container object's
\* own extent and its allocated size otherwise, so a container whose data begins
\* at the first address past the object contributes its allocated size.
C12_UsedMemoryByExtent ==
  used_memory.called =>
    used_memory.value =
      IF stored.owned
      THEN (IF WithinExtent(BufferAt, layout.buffer_data) THEN 0 ELSE layout.buffer_capacity)
           + (IF WithinExtent(SizesAt, layout.sizes_data) THEN 0 ELSE layout.sizes_memsize)
      ELSE 0

\* The call in progress went through the loop of ChangeSubscriptions and is past it.
PastLoop == csu.open /\ pc \in {"reply", "done"}
\* The addressed set once the first k arguments have been applied to the entry set.
LocalAfter(k) ==
  LET old == LocalStore(entry.info, call.pattern)
      seen == {call.args[j] : j \in 1..k}
  IN IF call.to_add THEN old \cup seen ELSE old \ seen

\* C13: a ChangeSubscriptions call past the early return yields, with reply, one
\* entry per argument, entry k being channels + patterns right after argument k was
\* applied, and without reply an empty result; afterwards the addressed set is the
\* old set united with (adding) or minus (removing) the arguments and the other
\* set is as it was.
C13_RunningCountAndSets ==
  PastLoop =>
    /\ call.to_reply =>
          /\ Len(call.result) = Len(call.args)
          /\ \A k \in 1..Len(call.args) :
                call.result[k] = Cardinality(LocalAfter(k))
                                 + Cardinality(LocalStore(entry.info, ~call.pattern))
    /\ ~call.to_reply => call.result = <<>>
    /\ LocalStore(subscribe_info, call.pattern) = LocalAfter(Len(call.args))
    /\ LocalStore(subscribe_info, ~call.pattern) = LocalStore(entry.info, ~call.pattern)

C13_Witness ==
  /\ PastLoop /\ pc = "done"
  /\ call.to_reply /\ ~call.to_add /\ ~call.pattern
  /\ entry.info.patterns # {}
  /\ call.result = <<2, 1>>

\* A removing call of ChangeSubscription / ChangePSubscription that found no
\* SubscribeInfo has come back from ChangeSubscriptions.
RemovedFromNothing ==
  /\ pc \in {"reply", "done"}
  /\ call.op \in {"ChangeSubscription", "ChangePSubscription"}
  /\ ~call.to_add
  /\ ~entry.info.present

\* C14: a removing ChangeSubscriptions call issued while no SubscribeInfo exists
\* creates none, leaves the subscription counter as it was, opens and applies no
\* routing update, and returns zeros, one per argument with reply, none without.
C14_RemoveWithoutInfoIsNoOp ==
  RemovedFromNothing =>
    /\ call.early
    /\ subscribe_info = NoInfo
    /\ subscriptions = entry.subs
    /\ ~csu.open /\ csu.applied = 0 /\ csu.ops = <<>>
    /\ store = entry.store
    /\ Len(call.result) = (IF call.to_reply THEN Len(call.args) ELSE 0)
    /\ \A k \in 1..Len(call.result) : call.result[k] = 0

C14_Witness ==
  /\ RemovedFromNothing /\ pc = "done"
  /\ call.pattern /\ call.to_reply
  /\ Len(call.args) = 2
  /\ call.result = <<0, 0>>
  /\ Len(replies) = 2

\* UnsubscribeAll / PUnsubscribeAll has finished on a connection whose addressed
\* set held at least one name when it was called.
UnsubscribedAll ==
  /\ pc = "done"
  /\ call.op \in {"UnsubscribeAll", "PUnsubscribeAll"}
  /\ LocalStore(entry.info, call.pattern) # {}

\* C15: UnsubscribeAll on a non-empty channel set removes every channel and leaves
\* the patterns alone, PUnsubscribeAll likewise with the roles swapped; afterwards
\* the SubscribeInfo is absent iff the untouched set was empty, and with reply one
\* frame is sent per removed name, each name once.
C15_UnsubscribeAllRemovesAll ==
  UnsubscribedAll =>
    LET removed == LocalStore(entry.info, call.pattern)
        kept == LocalStore(entry.info, ~call.pattern)
    IN /\ call.pattern = (call.op = "PUnsubscribeAll")
       /\ LocalStore(subscribe_info, call.pattern) = {}
       /\ LocalStore(subscribe_info, ~call.pattern) = kept
       /\ subscribe_info.present <=> kept # {}
       /\ call.to_reply =>
             /\ Len(replies) = Cardinality(removed)
             /\ {replies[k].topic : k \in 1..Len(replies)} = removed
             /\ \A k \in 1..Len(replies) :
                   /\ ~replies[k].null_topic
                   /\ replies[k].action = ActionName(call.pattern, FALSE)
       /\ ~call.to_reply => replies = <<>>

C15_Witness ==
  /\ UnsubscribedAll
  /\ call.op = "PUnsubscribeAll" /\ call.to_reply
  /\ Cardinality(entry.info.patterns) = 2
  /\ entry.info.channels # {}
  /\ Len(replies) = 2
  /\ subscribe_info.present

\* Context n is constructed by this step.
Constructed(n) == ~ctx[n].exists /\ ctx'[n].exists

\* C16: a context forked from no parent holds NONE_COMMANDS for every family, and
\* so does a root context whose credential supplies no bitmap; a fork takes the
\* parent's selected database index and the back-reference to the parent iff a
\* transaction is supplied, and has the default index and no back-reference
\* otherwise.
C16_ForkDefaults ==
  [][\A n \in CtxIds : Constructed(n) =>
       LET c == ctx'[n]
       IN /\ (c.kind = "fork" /\ c.owner = 0) => acl_heap'[c.acl_commands] = NoneAcl
          /\ (c.kind = "root" /\ c.cred_acl = <<>>) => acl_heap'[c.acl_commands] = NoneAcl
          /\ (c.kind = "root" /\ c.cred_acl # <<>>) => acl_heap'[c.acl_commands] = c.cred_acl
          /\ c.kind = "fork" =>
                IF c.transaction
                THEN /\ c.owner # 0
                     /\ c.db_index = ctx[c.owner].db_index
                     /\ c.squashing_info = c.owner
                ELSE /\ c.db_index = NoCtx.db_index
                     /\ c.squashing_info = NoCtx.squashing_info]_vars

C16_Witness ==
  \E n, m \in CtxIds :
    /\ ctx[1].kind = "root" /\ ctx[1].cred_acl = <<>> /\ ctx[1].db_index = 1
    /\ ctx[n].kind = "fork" /\ ctx[n].transaction /\ ctx[n].owner = 1
    /\ ctx[n].db_index = 1 /\ ctx[n].squashing_info = 1
    /\ ctx[m].kind = "fork" /\ ~ctx[m].transaction /\ ctx[m].owner = 1
    /\ ctx[m].db_index = 0 /\ ctx[m].squashing_info = 0

CounterIsPresence == subscriptions = (IF subscribe_info.present THEN 1 ELSE 0)
\* The counter moves by one, together with the creation or the reset of the record.
CounterStep ==
  /\ subscriptions' > subscriptions =>
       /\ ~subscribe_info.present /\ subscribe_info'.present
       /\ subscriptions' = subscriptions + 1
  /\ subscriptions' < subscriptions =>
       /\ subscribe_info.present /\ ~subscribe_info'.present
       /\ subscriptions' = subscriptions - 1
  /\ subscribe_info.present # subscribe_info'.present =>
       subscriptions' # subscriptions

\* C17: in every state the subscription counter is 1 when the SubscribeInfo is
\* present and 0 when it is absent; it goes up only in the step that creates a
\* SubscribeInfo and down only in the step that tears one down, so it is never
\* below 0 nor above 1, however many channels and patterns are held.
C17_CounterTracksInfo == []CounterIsPresence /\ [][CounterStep]_vars

C17_Witness ==
  /\ pc = "done"
  /\ SubscriptionCount(entry.info) = 2 /\ entry.subs = 1
  /\ ~subscribe_info.present /\ subscriptions = 0

\* UnsubscribeAll / PUnsubscribeAll was called without reply on a connection that
\* has no SubscribeInfo.
SilentUnsubscribeAllOnNothing ==
  /\ call.op \in {"UnsubscribeAll", "PUnsubscribeAll"}
  /\ ~call.to_reply
  /\ ~entry.info.present

\* C18: UnsubscribeAll and PUnsubscribeAll are safe in every state and for both
\* values of to_reply: called without reply while no SubscribeInfo exists they do
\* not read the set of the absent record (no fault) and leave the state as it was.
C18_UnsubscribeAllSafe ==
  /\ pc # "crashed"
  /\ SilentUnsubscribeAllOnNothing =>
       /\ subscribe_info = entry.info
       /\ subscriptions = entry.subs
       /\ store = entry.store
       /\ replies = <<>>

\* C19: whenever UnsubscribeAll, PUnsubscribeAll or ChangePSubscription sends the
\* frame with a null topic and count 0, the connection holds no subscription at
\* all at that moment, channels and patterns together.
C19_NullFrameMeansNoSubscriptions ==
  pc = "done" =>
    \A k \in 1..Len(replies) :
      (replies[k].null_topic /\ replies[k].count = 0) =>
        SubscriptionCount(subscribe_info) = 0

\* No ChangeMonitor call is between its list change and its return.
AllReturned == \A c \in Conns : mon_call[c].pc # "await"
\* The connections registered in the monitor lists of all shard threads together.
Registered == UNION {mon_list[s] : s \in Shards}

\* C20: whatever the interleaving of the matching ChangeMonitor calls of distinct
\* connections on different shard threads, no shard's count is ever negative, and
\* once every call has returned each shard's count is the number of connections
\* registered in all monitor lists together, so a shard sees its count above zero
\* iff some connection is being monitored.
C20_CountsAgreeWhenQuiet ==
  /\ \A s \in Shards : mon_count[s] >= 0
  /\ \A s, t \in Shards : s # t => mon_list[s] \cap mon_list[t] = {}
  /\ AllReturned =>
       \A s \in Shards :
         /\ mon_count[s] = Cardinality(Registered)
         /\ mon_count[s] > 0 <=> \E c \in Conns : monitoring[c]

C20_Witness ==
  \E c, d \in Conns :
    /\ conn_shard[c] # conn_shard[d]
    /\ AllReturned
    /\ mon_call[c].pc = "returned" /\ monitoring[c]
    /\ mon_call[d].pc = "returned" /\ ~mon_call[d].start /\ ~monitoring[d]
    /\ \A s \in Shards : mon_count[s] = 1

====
